---- MODULE Spec2Model ----
(***************************************************************************)
(* Model of function/main.py: predict_with_logging, the HTTP handler that  *)
(* proxies a prediction request to the original function and logs one row  *)
(* to BigQuery.  Every handler invocation is a process; it is cut at its   *)
(* two blocking calls (requests.post and bq_client.insert_rows_json), so   *)
(* invocations interleave exactly where the runtime lets them.             *)
(* The wall-clock fields of the row (timestamp, response_time_ms) are not  *)
(* modelled.                                                               *)
(***************************************************************************)
EXTENDS Bags, FiniteSets, Integers, Sequences, TLC

\* number of handler invocations (requests) of one run
NumRequests == 2

Handlers == 1..NumRequests

\* Python's None where a string is expected
None == "<None>"

-----------------------------------------------------------------------------
\* configuration

TABLE_REF == "project.ml_prediction_logs.potw_predictions"

ORIGINAL_FUNCTION_URL == "https://us-central1-cis-5450-final-project.cloudfunctions.net/predict-potw"

UPSTREAM_TIMEOUT == 30

-----------------------------------------------------------------------------
\* JSON values as the handler sees them after parsing

JsonNone == [kind |-> "none", obj |-> [k \in {} |-> ""], items |-> <<>>]

JsonObject(f) == [kind |-> "object", obj |-> f, items |-> <<>>]

JsonArray(s) == [kind |-> "array", obj |-> [k \in {} |-> ""], items |-> s]

P1 == [conference |-> "East", name |-> "Player A", probability_pct |-> 87, rank |-> 1]

P2 == [conference |-> "West", name |-> "Player B", probability_pct |-> 61, rank |-> 2]

\* raw request bodies the clients send
RequestBodies ==
    { "", "not json", "{}", "[1]",
      "{\"season\": \"2024\"}",
      "{\"week_start\": \"\"}",
      "{\"week_start\": \"2024-01-01\"}",
      "{\"week_start\": \"2024-01-08\", \"season\": \"2024\"}" }

\* request.get_json(silent=True): the parsed body, None when the body is
\* absent, empty or does not parse
get_json(body) ==
    CASE body = "{}" -> JsonObject([k \in {} |-> ""])
      [] body = "[1]" -> JsonArray(<<1>>)
      [] body = "{\"season\": \"2024\"}" -> JsonObject([k \in {"season"} |-> "2024"])
      [] body = "{\"week_start\": \"\"}" -> JsonObject([k \in {"week_start"} |-> ""])
      [] body = "{\"week_start\": \"2024-01-01\"}" ->
            JsonObject([k \in {"week_start"} |-> "2024-01-01"])
      [] body = "{\"week_start\": \"2024-01-08\", \"season\": \"2024\"}" ->
            JsonObject([k \in {"week_start", "season"} |->
                          IF k = "week_start" THEN "2024-01-08" ELSE "2024"])
      [] OTHER -> JsonNone

\* Python truth value of a parsed JSON value, negated: "not request_json"
FalsyNever(v) == FALSE

Falsy(v) ==
    \/ v.kind = "none"
    \/ v.kind = "object" /\ DOMAIN v.obj = {}
    \/ v.kind = "array" /\ v.items = <<>>

\* v.get exists only on a dict; on a list it raises AttributeError
HasGet(v) == v.kind = "object"

\* dict.get(key, default)
DictGet(v, key, default) == IF key \in DOMAIN v.obj THEN v.obj[key] ELSE default

\* "not week_start"
FalsyStr(s) == s = None \/ s = ""

-----------------------------------------------------------------------------
\* requests

Methods == {"OPTIONS", "POST"}

REMOTE_ADDR == "192.0.2.7"

\* the X-Forwarded-For header: absent, or a comma separated list
ForwardedFor == {None, "10.0.0.1, 10.0.0.2"}

Requests == [method : Methods, body : RequestBodies, forwarded : ForwardedFor]

NoRequest == [method |-> "", body |-> "", forwarded |-> None]

\* client_ip.split(",")[0].strip()
FirstEntry(s) == IF s = "10.0.0.1, 10.0.0.2" THEN "10.0.0.1" ELSE s

HasComma(s) == s = "10.0.0.1, 10.0.0.2"

ClientIp(req) ==
    LET client_ip == IF req.forwarded # None THEN req.forwarded ELSE REMOTE_ADDR
    IN  IF HasComma(client_ip) THEN FirstEntry(client_ip) ELSE client_ip

-----------------------------------------------------------------------------
\* responses of the handler

CorsHeaders ==
    [h \in {"Access-Control-Allow-Origin", "Access-Control-Allow-Methods",
            "Access-Control-Allow-Headers"} |->
        CASE h = "Access-Control-Allow-Origin" -> "*"
          [] h = "Access-Control-Allow-Methods" -> "POST, OPTIONS"
          [] OTHER -> "Content-Type"]

\* {"Content-Type": "application/json", **headers}
JsonHeaders ==
    [h \in DOMAIN CorsHeaders \cup {"Content-Type"} |->
        IF h \in DOMAIN CorsHeaders THEN CorsHeaders[h] ELSE "application/json"]

\* json.dumps({"error": msg})
DumpsError(msg) ==
    CASE msg = "Request must be JSON" -> "{\"error\": \"Request must be JSON\"}"
      [] msg = "week_start is required" -> "{\"error\": \"week_start is required\"}"
      [] msg = "Failed to get predictions" -> "{\"error\": \"Failed to get predictions\"}"
      [] OTHER -> "{\"error\": \"Internal server error\"}"

Response(body, status, headers) == [body |-> body, status |-> status, headers |-> headers]

NoResponse == Response("", 0, CorsHeaders)

PreflightWithBody == Response("{}", 200, CorsHeaders)

PreflightResponse == Response("", 204, CorsHeaders)

ErrorResponse(msg, status) == Response(DumpsError(msg), status, JsonHeaders)

-----------------------------------------------------------------------------
\* the upstream predictor

\* what requests.post can give back: an HTTP response
UpstreamResponses ==
    { [status_code |-> 200, content |-> "[p1, p2]"],
      [status_code |-> 200, content |-> "<html>"],
      [status_code |-> 503, content |-> "[p1]"] }

\* or a requests.exceptions.RequestException
TransportErrors == {"Timeout", "ConnectionError"}

NoUpstreamResponse == [status_code |-> 0, content |-> ""]

\* response.json() succeeds
Parseable(content) == content \in {"[p1, p2]", "[p1]"}

\* response.json()
ResponseJson(content) ==
    CASE content = "[p1, p2]" -> <<P1, P2>>
      [] content = "[p1]" -> <<P1>>
      [] OTHER -> <<>>

PredictionsAnyStatus(response) ==
    IF Parseable(response.content) THEN ResponseJson(response.content) ELSE <<>>

\* predictions = [] ; if status_code == 200: try response.json() except: []
Predictions(response) ==
    IF response.status_code = 200
    THEN IF Parseable(response.content) THEN ResponseJson(response.content) ELSE <<>>
    ELSE <<>>

UpstreamCall(request_json) ==
    [url |-> ORIGINAL_FUNCTION_URL, json |-> request_json,
     content_type |-> "application/json", timeout |-> UPSTREAM_TIMEOUT]

-----------------------------------------------------------------------------
\* the audit sink

Row(week_start, predictions, client_ip, status_code) ==
    [week_start |-> week_start, predictions |-> predictions,
     client_ip |-> client_ip, status_code |-> status_code]

NoRow == Row(None, <<>>, None, 0)

\* the row of the upstream-responded path
ResponseRow(week_start, predictions, client_ip, status_code) ==
    Row(week_start, predictions, client_ip, status_code)

ErrorRowUnknown(request_json, client_ip) == Row("unknown", <<>>, client_ip, 500)

\* the row of the transport-failure path
ErrorRow(request_json, client_ip) ==
    Row(DictGet(request_json, "week_start", "unknown"), <<>>, client_ip, 500)

\* bq_client.insert_rows_json(table_ref, [row])
InsertCall(row) == [table |-> TABLE_REF, rows |-> <<row>>]

\* outcomes of insert_rows_json: no errors, a list of row errors, an exception
SinkOutcomes == {"ok", "row_errors", "raise"}

-----------------------------------------------------------------------------
\* state

VARIABLES
    pc,             \* where each invocation stands: idle, upstream, insert, insert_error, done
    local,          \* the local variables of each invocation
    result,         \* the (body, status_code, headers) each invocation returned
    trace,          \* the calls and prints each invocation made, in program order
    upstream_calls, \* the POSTs the upstream predictor received
    sink_calls      \* the insert_rows_json calls the audit sink received

vars == <<pc, local, result, trace, upstream_calls, sink_calls>>

NoLocal ==
    [request |-> NoRequest, client_ip |-> None, request_json |-> JsonNone,
     week_start |-> None, response |-> NoUpstreamResponse, error |-> None,
     status_code |-> 0, predictions |-> <<>>, row |-> NoRow, insert_outcome |-> None]

Init ==
    /\ pc = [p \in Handlers |-> "idle"]
    /\ local = [p \in Handlers |-> NoLocal]
    /\ result = [p \in Handlers |-> NoResponse]
    /\ trace = [p \in Handlers |-> <<>>]
    /\ upstream_calls = EmptyBag
    /\ sink_calls = EmptyBag

\* requests.post(ORIGINAL_FUNCTION_URL, json=request_json, ...) is sent
UpstreamPost(calls, request_json) == calls (+) SetToBag({UpstreamCall(request_json)})

SinkInsertRetry(calls, row) ==
    calls (+) SetToBag({InsertCall(row)}) (+) SetToBag({InsertCall(row)})

SinkInsertMerge(calls, row) ==
    IF BagIn(InsertCall(row), calls) THEN calls ELSE calls (+) SetToBag({InsertCall(row)})

\* bq_client.insert_rows_json(table_ref, [row]) is sent
SinkInsert(calls, row) == calls (+) SetToBag({InsertCall(row)})

Return(p, response, events) ==
    /\ result' = [result EXCEPT ![p] = response]
    /\ trace' = [trace EXCEPT ![p] = @ \o events \o <<"return">>]
    /\ pc' = [pc EXCEPT ![p] = "done"]

-----------------------------------------------------------------------------
\* the handler, entry to the upstream call or to an early return

Receive(p, req) ==
    /\ pc[p] = "idle"
    /\ LET client_ip == ClientIp(req)
           request_json == get_json(req.body)
           week_start == DictGet(request_json, "week_start", None)
           entered == [local[p] EXCEPT !.request = req, !.client_ip = client_ip]
           parsed == [entered EXCEPT !.request_json = request_json]
       IN  IF req.method = "OPTIONS"
           THEN /\ Return(p, PreflightResponse, <<>>)
                /\ local' = [local EXCEPT ![p] = entered]
                /\ UNCHANGED <<upstream_calls, sink_calls>>
           ELSE IF Falsy(request_json)
           THEN /\ Return(p, ErrorResponse("Request must be JSON", 400), <<>>)
                /\ local' = [local EXCEPT ![p] = parsed]
                /\ UNCHANGED <<upstream_calls, sink_calls>>
           ELSE IF ~HasGet(request_json)
           THEN \* AttributeError, caught by the last except clause
                /\ Return(p, ErrorResponse("Internal server error", 500),
                          <<"print Unexpected error">>)
                /\ local' = [local EXCEPT ![p] = parsed]
                /\ UNCHANGED <<upstream_calls, sink_calls>>
           ELSE IF FalsyStr(week_start)
           THEN /\ Return(p, ErrorResponse("week_start is required", 400), <<>>)
                /\ local' = [local EXCEPT ![p] = [parsed EXCEPT !.week_start = week_start]]
                /\ UNCHANGED <<upstream_calls, sink_calls>>
           ELSE /\ upstream_calls' = UpstreamPost(upstream_calls, request_json)
                /\ local' = [local EXCEPT ![p] = [parsed EXCEPT !.week_start = week_start]]
                /\ trace' = [trace EXCEPT ![p] = @ \o <<"upstream_call">>]
                /\ pc' = [pc EXCEPT ![p] = "upstream"]
                /\ UNCHANGED <<result, sink_calls>>

-----------------------------------------------------------------------------
\* requests.post returned a response: parse it, build the row, call the sink

UpstreamRespondsDetached(p, response) ==
    /\ pc[p] = "upstream"
    /\ LET status_code == response.status_code
           predictions == Predictions(response)
           row == ResponseRow(local[p].week_start, predictions, local[p].client_ip,
                              status_code)
       IN  /\ local' = [local EXCEPT ![p] =
                          [@ EXCEPT !.response = response, !.status_code = status_code,
                                    !.predictions = predictions, !.row = row]]
           /\ sink_calls' = SinkInsert(sink_calls, row)
           /\ Return(p, Response(response.content, status_code, JsonHeaders),
                     <<"upstream_done", "insert_call">>)
    /\ UNCHANGED upstream_calls

UpstreamResponds(p, response) ==
    /\ pc[p] = "upstream"
    /\ LET status_code == response.status_code
           predictions == Predictions(response)
           row == ResponseRow(local[p].week_start, predictions, local[p].client_ip,
                              status_code)
       IN  /\ local' = [local EXCEPT ![p] =
                          [@ EXCEPT !.response = response, !.status_code = status_code,
                                    !.predictions = predictions, !.row = row]]
           /\ sink_calls' = SinkInsert(sink_calls, row)
    /\ trace' = [trace EXCEPT ![p] = @ \o <<"upstream_done", "insert_call">>]
    /\ pc' = [pc EXCEPT ![p] = "insert"]
    /\ UNCHANGED <<result, upstream_calls>>

\* requests.post raised a RequestException: build the error row, call the sink
UpstreamFails(p, err) ==
    /\ pc[p] = "upstream"
    /\ LET row == ErrorRow(local[p].request_json, local[p].client_ip)
       IN  /\ local' = [local EXCEPT ![p] = [@ EXCEPT !.error = err, !.row = row]]
           /\ sink_calls' = SinkInsert(sink_calls, row)
    /\ trace' = [trace EXCEPT ![p] =
                   @ \o <<"upstream_done", "print Error calling original function",
                          "insert_call">>]
    /\ pc' = [pc EXCEPT ![p] = "insert_error"]
    /\ UNCHANGED <<result, upstream_calls>>

-----------------------------------------------------------------------------
\* insert_rows_json came back: return to the caller

AfterInsertPropagate(response, status_code, outcome) ==
    IF outcome = "raise"
    THEN ErrorResponse("Internal server error", 500)
    ELSE Response(response.content, status_code, JsonHeaders)

AfterInsertReencode(response, status_code, outcome) ==
    Response(IF Parseable(response.content) THEN response.content ELSE "[]",
             status_code, JsonHeaders)

\* return (response.content, status_code, {...}) after the logging block
AfterInsert(response, status_code, outcome) ==
    Response(response.content, status_code, JsonHeaders)

AfterErrorInsertPropagate(outcome) ==
    IF outcome = "raise"
    THEN ErrorResponse("Internal server error", 500)
    ELSE ErrorResponse("Failed to get predictions", 500)

\* return (json.dumps({"error": "Failed to get predictions"}), 500, {...})
AfterErrorInsert(outcome) == ErrorResponse("Failed to get predictions", 500)

InsertReturns(p, outcome) ==
    /\ pc[p] = "insert"
    /\ local' = [local EXCEPT ![p] = [@ EXCEPT !.insert_outcome = outcome]]
    /\ Return(p, AfterInsert(local[p].response, local[p].status_code, outcome),
              <<"insert_done">> \o
              CASE outcome = "row_errors" -> <<"print BigQuery insert errors">>
                [] outcome = "raise" -> <<"print Failed to log to BigQuery">>
                [] OTHER -> <<>>)
    /\ UNCHANGED <<upstream_calls, sink_calls>>

ErrorInsertReturns(p, outcome) ==
    /\ pc[p] = "insert_error"
    /\ local' = [local EXCEPT ![p] = [@ EXCEPT !.insert_outcome = outcome]]
    /\ Return(p, AfterErrorInsert(outcome),
              <<"insert_done">> \o
              IF outcome = "raise" THEN <<"print Failed to log error to BigQuery">>
              ELSE <<>>)
    /\ UNCHANGED <<upstream_calls, sink_calls>>

Next ==
    \E p \in Handlers :
        \/ \E req \in Requests : Receive(p, req)
        \/ \E response \in UpstreamResponses : UpstreamResponds(p, response)
        \/ \E err \in TransportErrors : UpstreamFails(p, err)
        \/ \E outcome \in SinkOutcomes : InsertReturns(p, outcome)
        \/ \E outcome \in SinkOutcomes : ErrorInsertReturns(p, outcome)

Spec == Init /\ [][Next]_vars

TypeOK ==
    /\ pc \in [Handlers -> {"idle", "upstream", "insert", "insert_error", "done"}]
    /\ \A p \in Handlers : local[p].request \in Requests \cup {NoRequest}
    /\ \A p \in Handlers : result[p].status \in {0, 204, 400, 500, 200, 503}

-----------------------------------------------------------------------------
\* vocabulary of the properties, read off the requests and not off the handler

Done(p) == pc[p] = "done"

Req(p) == local[p].request

\* the bodies that are JSON objects with a non-empty week_start
BodiesWithWeekStart ==
    { "{\"week_start\": \"2024-01-01\"}",
      "{\"week_start\": \"2024-01-08\", \"season\": \"2024\"}" }

\* the bodies that are valid JSON without a week_start, or with an empty one
JsonBodiesWithoutWeekStart ==
    { "{}", "[1]", "{\"season\": \"2024\"}", "{\"week_start\": \"\"}" }

\* the bodies that are absent, empty or no JSON
NonJsonBodies == { "", "not json" }

WeekStartOf(body) ==
    IF body = "{\"week_start\": \"2024-01-01\"}" THEN "2024-01-01" ELSE "2024-01-08"

PassesValidation(p) ==
    /\ pc[p] # "idle"
    /\ Req(p).method # "OPTIONS"
    /\ Req(p).body \in BodiesWithWeekStart

Count(p, event) == Cardinality({i \in DOMAIN trace[p] : trace[p][i] = event})

\* the upstream answered invocation p with an HTTP response
Responded(p) == PassesValidation(p) /\ local[p].response # NoUpstreamResponse

\* the upstream call of invocation p raised a RequestException
Failed(p) == PassesValidation(p) /\ local[p].error # None

ExpectedPredictions(response) ==
    IF response.status_code = 200 /\ response.content = "[p1, p2]" THEN <<P1, P2>>
    ELSE <<>>

ExpectedIp(req) == IF req.forwarded = None THEN "192.0.2.7" ELSE "10.0.0.1"

ExpectedRow(p) ==
    IF Failed(p)
    THEN [week_start |-> WeekStartOf(Req(p).body), predictions |-> <<>>,
          client_ip |-> ExpectedIp(Req(p)), status_code |-> 500]
    ELSE [week_start |-> WeekStartOf(Req(p).body),
          predictions |-> ExpectedPredictions(local[p].response),
          client_ip |-> ExpectedIp(Req(p)),
          status_code |-> local[p].response.status_code]

ExpectedInsert(p) == [table |-> TABLE_REF, rows |-> <<ExpectedRow(p)>>]

-----------------------------------------------------------------------------
\* C1: two invocations given the same request and the same upstream outcome
\* return the same (body, status_code, headers), whatever insert_rows_json
\* did for each of them (no errors, row errors, an exception), on the
\* upstream-responded path and on the transport-failure path.
AuditSinkIsolation ==
    \A p, q \in Handlers :
        ( /\ Done(p) /\ Done(q)
          /\ Req(p) = Req(q)
          /\ local[p].response = local[q].response
          /\ local[p].error = local[q].error )
        => result[p] = result[q]

AuditSinkIsolationWitness ==
    \E p, q \in Handlers :
        /\ Done(p) /\ Done(q)
        /\ Req(p) = Req(q)
        /\ local[p].response = local[q].response
        /\ local[p].error = local[q].error
        /\ local[p].insert_outcome = "raise"
        /\ local[q].insert_outcome = "ok"

\* C2: an OPTIONS request, whatever its headers and body, gets 204 with an
\* empty body; the invocation calls neither the upstream nor the sink.
PreflightShortCircuit ==
    /\ \A p \in Handlers :
          (pc[p] # "idle" /\ Req(p).method = "OPTIONS")
          => /\ Done(p)
             /\ result[p].status = 204
             /\ result[p].body = ""
             /\ trace[p] = <<"return">>
    /\ (\A p \in Handlers : pc[p] # "idle" => Req(p).method = "OPTIONS")
       => upstream_calls = EmptyBag /\ sink_calls = EmptyBag

PreflightShortCircuitWitness ==
    \A p \in Handlers :
        /\ Done(p)
        /\ Req(p).method = "OPTIONS"
        /\ Req(p).body \in BodiesWithWeekStart

\* C3: a non-OPTIONS request whose body is valid JSON without week_start (or
\* with an empty one) gets 400 {"error": "week_start is required"}, with no
\* upstream call and no insert.
MissingWeekStartRejected ==
    \A p \in Handlers :
        (Done(p) /\ Req(p).method # "OPTIONS" /\ Req(p).body \in JsonBodiesWithoutWeekStart)
        => /\ result[p].status = 400
           /\ result[p].body = "{\"error\": \"week_start is required\"}"
           /\ Count(p, "upstream_call") = 0
           /\ Count(p, "insert_call") = 0

\* C4: a non-OPTIONS request whose body is absent, empty or no JSON gets
\* 400 {"error": "Request must be JSON"}, with no upstream call and no insert.
NonJsonRejected ==
    /\ \A p \in Handlers :
          (pc[p] # "idle" /\ Req(p).method # "OPTIONS" /\ Req(p).body \in NonJsonBodies)
          => /\ Done(p)
             /\ result[p].status = 400
             /\ result[p].body = "{\"error\": \"Request must be JSON\"}"
             /\ Count(p, "upstream_call") = 0
             /\ Count(p, "insert_call") = 0
    /\ (\A p \in Handlers :
           pc[p] # "idle" => (Req(p).method # "OPTIONS" /\ Req(p).body \in NonJsonBodies))
       => upstream_calls = EmptyBag /\ sink_calls = EmptyBag

NonJsonRejectedWitness ==
    \E p, q \in Handlers :
        /\ Done(p) /\ Req(p).method = "POST" /\ Req(p).body = ""
        /\ Done(q) /\ Req(q).method = "POST" /\ Req(q).body = "not json"

\* C5: when the upstream answers a validated request with status s and body
\* b (200 parseable, 200 unparseable, or not 200), the handler returns
\* exactly b and s.
PassThrough ==
    \A p \in Handlers :
        (Done(p) /\ Responded(p))
        => /\ result[p].body = local[p].response.content
           /\ result[p].status = local[p].response.status_code

PassThroughWitness ==
    \E p, q \in Handlers :
        /\ Done(p) /\ Responded(p)
        /\ local[p].response = [status_code |-> 200, content |-> "<html>"]
        /\ Done(q) /\ Responded(q)
        /\ local[q].response.status_code = 503

\* C6: on the upstream-responded path the row handed to the sink has the
\* request's week_start, the status returned to the caller, and as
\* predictions the decoded array when the status is 200 and the body parses,
\* the empty sequence otherwise.
ResponseRowContent ==
    \A p \in Handlers :
        Responded(p)
        => /\ local[p].row.week_start = WeekStartOf(Req(p).body)
           /\ local[p].row.status_code = local[p].response.status_code
           /\ Done(p) => local[p].row.status_code = result[p].status
           /\ local[p].row.predictions = ExpectedPredictions(local[p].response)
           /\ BagIn([table |-> TABLE_REF, rows |-> <<local[p].row>>], sink_calls)

ResponseRowContentWitness ==
    \E p, q \in Handlers :
        /\ Done(p) /\ Responded(p)
        /\ local[p].response = [status_code |-> 200, content |-> "[p1, p2]"]
        /\ Len(local[p].row.predictions) = 2
        /\ Done(q) /\ Responded(q)
        /\ local[q].response = [status_code |-> 503, content |-> "[p1]"]

\* C7: when the upstream call of a validated request times out or fails in
\* transport, the handler returns 500 {"error": "Failed to get predictions"}
\* and has tried to insert one row with status_code 500, no predictions and
\* the week_start of the request.
TransportFailure ==
    \A p \in Handlers :
        Failed(p)
        => /\ Count(p, "insert_call") = 1
           /\ local[p].row.week_start = WeekStartOf(Req(p).body)
           /\ local[p].row.predictions = <<>>
           /\ local[p].row.status_code = 500
           /\ BagIn([table |-> TABLE_REF, rows |-> <<local[p].row>>], sink_calls)
           /\ Done(p) => /\ result[p].status = 500
                         /\ result[p].body = "{\"error\": \"Failed to get predictions\"}"

TransportFailureWitness ==
    \E p, q \in Handlers :
        /\ Done(p) /\ Failed(p) /\ local[p].error = "Timeout"
        /\ Done(q) /\ Failed(q) /\ local[q].error = "ConnectionError"

\* C8 as stated: every non-OPTIONS request makes exactly one insert call on
\* every exit path, every OPTIONS request none.
OneInsertPerParsedRequest ==
    \A p \in Handlers :
        Done(p) => Count(p, "insert_call") = IF Req(p).method = "OPTIONS" THEN 0 ELSE 1

\* C8 amended: exactly one insert call is made for every request that
\* passes validation and whose upstream call responded or failed in
\* transport; none is made for an OPTIONS request nor for a request the
\* handler rejects before the upstream call.
OneInsertPerForwardedRequest ==
    /\ \A p \in Handlers :
          Done(p) => Count(p, "insert_call") = IF PassesValidation(p) THEN 1 ELSE 0
    /\ BagCardinality(sink_calls) =
          Cardinality({p \in Handlers : Responded(p) \/ Failed(p)})

OneInsertPerForwardedRequestWitness ==
    \E p, q \in Handlers :
        /\ Done(p) /\ Failed(p)
        /\ Done(q) /\ Req(q).method = "POST" /\ Req(q).body = "{}"
        /\ BagCardinality(sink_calls) = 1

\* C9: after k validated requests whose upstream call responded or failed,
\* in any interleaving, the sink has received exactly k insert calls, each
\* with the one row of its own request, and the upstream exactly one call per
\* forwarded request; identical requests are not merged.
NoDedupNoRetry ==
    LET completed == {p \in Handlers : Responded(p) \/ Failed(p)}
        forwarded == {p \in Handlers : PassesValidation(p)}
    IN  /\ BagCardinality(sink_calls) = Cardinality(completed)
        /\ \A c \in BagToSet(sink_calls) :
              /\ Len(c.rows) = 1
              /\ CopiesIn(c, sink_calls) =
                    Cardinality({p \in completed : ExpectedInsert(p) = c})
        /\ BagCardinality(upstream_calls) = Cardinality(forwarded)
        /\ \A c \in BagToSet(upstream_calls) :
              CopiesIn(c, upstream_calls) =
                  Cardinality({p \in forwarded : get_json(Req(p).body) = c.json})

NoDedupNoRetryWitness ==
    \E p, q \in Handlers :
        /\ p # q
        /\ Done(p) /\ Done(q)
        /\ Responded(p) /\ Responded(q)
        /\ Req(p) = Req(q)
        /\ local[p].response = local[q].response
        /\ CopiesIn(ExpectedInsert(p), sink_calls) = 2
        /\ BagCardinality(upstream_calls) = 2

\* C10: within one invocation the insert call is made only after the upstream
\* call has completed (with a response or an exception), and a handler that
\* made an insert call returns only after that call has returned or raised.
Before(p, a, i) == \E j \in 1..(i - 1) : trace[p][j] = a

Between(p, a, j, i) == \E k \in (j + 1)..(i - 1) : trace[p][k] = a

CallOrdering ==
    \A p \in Handlers : \A i \in DOMAIN trace[p] :
        /\ trace[p][i] = "upstream_done" => Before(p, "upstream_call", i)
        /\ trace[p][i] = "insert_call" => Before(p, "upstream_done", i)
        /\ trace[p][i] = "return" =>
              \A j \in 1..(i - 1) :
                  trace[p][j] = "insert_call" => Between(p, "insert_done", j, i)

CallOrderingWitness ==
    \E p, q \in Handlers :
        /\ Done(p) /\ Responded(p) /\ local[p].insert_outcome = "raise"
        /\ Done(q) /\ Failed(q) /\ local[q].insert_outcome = "row_errors"

====
